---- MODULE Spec2Model ----
(***************************************************************************)
(* explain_query_spark.py: a command-line run of main().                   *)
(*                                                                         *)
(* Strings whose characters the program inspects (the two command-line     *)
(* arguments, the file name built from the query number) are sequences of  *)
(* one-character strings.  Texts the program only passes on (file          *)
(* contents, translated SQL, plan text) are opaque TLA+ strings.           *)
(* A path is the tuple of the components handed to os.path.join.           *)
(***************************************************************************)
EXTENDS Integers, Sequences, FiniteSets, TLC

VARIABLES
    argv,            \* sys.argv: <<script, arg1, arg2, ...>>
    fs,              \* the file system: path -> file state
    transpile,       \* sqlglot.transpile, a pure function of (text, read, write)
    pc,              \* position of the run inside main()
    benchmark,       \* main's local `benchmark`
    query_number,    \* main's local `query_number`
    query_path,      \* main's local `query_path`
    original_query,  \* main's local `original_query`
    spark_query,     \* main's local `spark_query`
    spark,           \* main's local `spark`: "None", "active", "stopped"
    stdout,          \* what the run printed, in order
    stderr,          \* what the interpreter wrote to standard error
    exit_status,     \* the status the process ends with (0 unless sys.exit(1) / uncaught)
    calls,           \* history: stages started and external calls made, in order
    run,             \* which invocation of the tool this is
    prev             \* history: what the previous invocation printed and returned

vars == <<argv, fs, transpile, pc, benchmark, query_number, query_path,
          original_query, spark_query, spark, stdout, stderr, exit_status,
          calls, run, prev>>

(***************************************************************************)
(* Bounds                                                                  *)
(***************************************************************************)
\* how many times the tool is invoked with the same arguments
MaxRuns == 2
\* get_query_path alone is applied to the query numbers -MaxPathNumber..MaxPathNumber
MaxPathNumber == 12

(***************************************************************************)
(* Characters and strings                                                  *)
(***************************************************************************)
UpperAlpha == <<"A","B","C","D","E","F","G","H","I","J","K","L","M",
                "N","O","P","Q","R","S","T","U","V","W","X","Y","Z">>
LowerAlpha == <<"a","b","c","d","e","f","g","h","i","j","k","l","m",
                "n","o","p","q","r","s","t","u","v","w","x","y","z">>
DigitChars == <<"0","1","2","3","4","5","6","7","8","9">>

IndexIn(c, alphabet) ==
    IF \E i \in DOMAIN alphabet : alphabet[i] = c
    THEN CHOOSE i \in DOMAIN alphabet : alphabet[i] = c
    ELSE 0

\* str.lower(), one character
LowerChar(c) ==
    IF IndexIn(c, UpperAlpha) > 0 THEN LowerAlpha[IndexIn(c, UpperAlpha)] ELSE c

\* str.lower()
Lower(s) == [i \in DOMAIN s |-> LowerChar(s[i])]

IsDigit(c) == IndexIn(c, DigitChars) > 0
DigitVal(c) == IndexIn(c, DigitChars) - 1
IsSpace(c) == c \in {" ", "\t", "\n"}

RECURSIVE LStrip(_)
LStrip(s) == IF Len(s) > 0 /\ IsSpace(s[1]) THEN LStrip(Tail(s)) ELSE s

RECURSIVE RStrip(_)
RStrip(s) ==
    IF Len(s) > 0 /\ IsSpace(s[Len(s)]) THEN RStrip(SubSeq(s, 1, Len(s) - 1)) ELSE s

\* the digit part of an integer literal: digits, single underscores between them
ValidDigits(d) ==
    /\ Len(d) > 0
    /\ IsDigit(d[1])
    /\ IsDigit(d[Len(d)])
    /\ \A i \in DOMAIN d : IsDigit(d[i]) \/ (d[i] = "_" /\ IsDigit(d[i + 1]))

RECURSIVE DigitsValue(_, _)
DigitsValue(d, acc) ==
    IF Len(d) = 0 THEN acc
    ELSE IF d[1] = "_" THEN DigitsValue(Tail(d), acc)
    ELSE DigitsValue(Tail(d), 10 * acc + DigitVal(d[1]))

\* int(s): [ok |-> TRUE, val |-> n], or [ok |-> FALSE] for ValueError
IntParse(s) ==
    LET t == RStrip(LStrip(s))
        signed == Len(t) > 0 /\ t[1] \in {"+", "-"}
        d == IF signed THEN Tail(t) ELSE t
    IN  IF ValidDigits(d)
        THEN [ok |-> TRUE,
              val |-> IF signed /\ t[1] = "-" THEN 0 - DigitsValue(d, 0)
                      ELSE DigitsValue(d, 0)]
        ELSE [ok |-> FALSE, val |-> 0]

RECURSIVE NatToStr(_)
NatToStr(n) ==
    IF n < 10 THEN <<DigitChars[n + 1]>>
    ELSE NatToStr(n \div 10) \o <<DigitChars[(n % 10) + 1]>>

\* f"{query_number}"
IntToStr(n) == IF n < 0 THEN <<"-">> \o NatToStr(0 - n) ELSE NatToStr(n)

(***************************************************************************)
(* Literals of the program                                                 *)
(***************************************************************************)
TPC_H == <<"t","p","c","-","h">>
TPC_DS == <<"t","p","c","-","d","s">>
SqlSuffix == <<".","s","q","l">>
QueryPrefix == <<"q","u","e","r","y">>
ScriptDir == "script_dir"
None == "None"

\* mutant: the tpc-ds branch uses the tpc-h file name template
GetQueryPathNoPrefix(b, n) ==
    IF b = TPC_H
    THEN [ok |-> TRUE, path |-> <<ScriptDir, "queries-tpc-h", IntToStr(n) \o SqlSuffix>>]
    ELSE IF b = TPC_DS
    THEN [ok |-> TRUE, path |-> <<ScriptDir, "queries-tpc-ds", IntToStr(n) \o SqlSuffix>>]
    ELSE [ok |-> FALSE, path |-> <<>>]

\* get_query_path(benchmark, query_number)
GetQueryPath(b, n) ==
    IF b = TPC_H
    THEN [ok |-> TRUE, path |-> <<ScriptDir, "queries-tpc-h", IntToStr(n) \o SqlSuffix>>]
    ELSE IF b = TPC_DS
    THEN [ok |-> TRUE,
          path |-> <<ScriptDir, "queries-tpc-ds", QueryPrefix \o IntToStr(n) \o SqlSuffix>>]
    ELSE [ok |-> FALSE, path |-> <<>>]

(***************************************************************************)
(* The environment: command lines, files, translator, engine               *)
(***************************************************************************)
Script == <<"e","x","p","l","a","i","n">>

BenchmarkArgs ==
    { TPC_H, TPC_DS,
      <<"T","P","C","-","H">>, <<"T","p","c","-","D","s">>,
      <<"t","p","c","-","x">>, <<"T","P","C","-","X">> }

NumberArgs ==
    { <<"1">>, <<"2","2">>, <<"+","3">>, <<"0","7">>, <<"-","5">>, <<"0">>,
      <<"a","b","c">>, <<"1",".","5">>, <<>> }

CommandLines ==
    { <<Script, b, n>> : b \in BenchmarkArgs, n \in NumberArgs }
    \cup { <<Script>>, <<Script, TPC_H>>, <<Script, TPC_H, <<"1">>, <<"1">>>> }

\* the integers the number arguments stand for
Numbers == { IntParse(n).val : n \in { m \in NumberArgs : IntParse(m).ok } }

Paths == { GetQueryPath(b, n).path : b \in {TPC_H, TPC_DS}, n \in Numbers }

\* contents of a query file
FileTexts == {"", "sqlA"}
\* a path is missing, exists but cannot be opened for reading, or holds a text
FileStates == {"missing", "unreadable"} \cup FileTexts
IsText(st) == st \in FileTexts

\* the file systems a run starts in: at most one of the paths exists
FileSystems ==
    { [p \in Paths |-> IF p = q THEN st ELSE "missing"] : q \in Paths, st \in FileStates }

\* what the translator gives back: a text, or an exception
TranslatedTexts == {"", "sparkA"}
TranspileResults ==
    { [ok |-> TRUE, text |-> t] : t \in TranslatedTexts } \cup { [ok |-> FALSE, text |-> ""] }
TranspileCalls == { <<t, "duckdb", "spark">> : t \in FileTexts }

\* what explainString gives back
PlanTexts == {"", "planP"}


(***************************************************************************)
(* Output and history records                                              *)
(***************************************************************************)
\* one print() call (a section header stands for its three prints)
Item(kind, val) == [kind |-> kind, val |-> val]
\* one stage start or external call
Call(op, arg) == [op |-> op, arg |-> arg]

Header(label) == Item("header", <<label>>)

\* `if spark:` of the finally block
Truthy(s) == s # None

\* mutant: the translation keeps state between invocations and fails on a later one
TranslateToSparkStateful(query) ==
    IF run > 1 THEN [ok |-> FALSE, text |-> ""] ELSE transpile[<<query, "duckdb", "spark">>]

\* sqlglot.transpile(query, read=source_dialect, write="spark", pretty=True),
\* wrapped by translate_to_spark: RuntimeError on any exception
TranslateToSpark(query) == transpile[<<query, "duckdb", "spark">>]

Init ==
    /\ argv \in CommandLines
    /\ fs \in FileSystems
    /\ transpile \in [TranspileCalls -> TranspileResults]
    /\ pc = "argc"
    /\ benchmark = <<>>
    /\ query_number = 0
    /\ query_path = <<>>
    /\ original_query = ""
    /\ spark_query = ""
    /\ spark = None
    /\ stdout = <<>>
    /\ stderr = <<>>
    /\ exit_status = 0
    /\ calls = <<>>
    /\ run = 1
    /\ prev = [stdout |-> <<>>, exit_status |-> 0]

env == <<argv, fs, transpile, run, prev>>

\* if len(sys.argv) != 3: print(__doc__); sys.exit(1)
CheckArgc ==
    /\ pc = "argc"
    /\ IF Len(argv) # 3
       THEN /\ stdout' = Append(stdout, Item("usage", <<"__doc__">>))
            /\ exit_status' = 1
            /\ pc' = "exited"
       ELSE /\ pc' = "parse"
            /\ UNCHANGED <<stdout, exit_status>>
    /\ UNCHANGED <<env, benchmark, query_number, query_path, original_query,
                   spark_query, spark, stderr, calls>>

\* mutant: the ValueError handler prints its message and forgets sys.exit(1)
ParseArgsNoExit ==
    /\ pc = "parse"
    /\ benchmark' = Lower(argv[2])
    /\ calls' = Append(calls, Call("validate", <<argv[2], argv[3]>>))
    /\ LET r == IntParse(argv[3])
       IN  IF r.ok
           THEN /\ query_number' = r.val
                /\ UNCHANGED stdout
           ELSE /\ stdout' = Append(stdout,
                        Item("error", <<"Query number must be an integer, got ", argv[3]>>))
                /\ UNCHANGED query_number
    /\ pc' = "validate"
    /\ UNCHANGED <<env, query_path, original_query, spark_query, spark, stderr, exit_status>>

\* mutant: the benchmark argument is used as typed, without .lower()
ParseArgsNoLower ==
    /\ pc = "parse"
    /\ benchmark' = argv[2]
    /\ calls' = Append(calls, Call("validate", <<argv[2], argv[3]>>))
    /\ LET r == IntParse(argv[3])
       IN  IF r.ok
           THEN /\ query_number' = r.val
                /\ pc' = "validate"
                /\ UNCHANGED <<stdout, exit_status>>
           ELSE /\ stdout' = Append(stdout,
                        Item("error", <<"Query number must be an integer, got ", argv[3]>>))
                /\ exit_status' = 1
                /\ pc' = "exited"
                /\ UNCHANGED query_number
    /\ UNCHANGED <<env, query_path, original_query, spark_query, spark, stderr>>

\* benchmark = sys.argv[1].lower(); query_number = int(sys.argv[2])
ParseArgs ==
    /\ pc = "parse"
    /\ benchmark' = Lower(argv[2])
    /\ calls' = Append(calls, Call("validate", <<argv[2], argv[3]>>))
    /\ LET r == IntParse(argv[3])
       IN  IF r.ok
           THEN /\ query_number' = r.val
                /\ pc' = "validate"
                /\ UNCHANGED <<stdout, exit_status>>
           ELSE /\ stdout' = Append(stdout,
                        Item("error", <<"Query number must be an integer, got ", argv[3]>>))
                /\ exit_status' = 1
                /\ pc' = "exited"
                /\ UNCHANGED query_number
    /\ UNCHANGED <<env, query_path, original_query, spark_query, spark, stderr>>

\* mutant: main does not check the benchmark and leaves it to get_query_path
ValidateBenchmarkSkipped ==
    /\ pc = "validate"
    /\ pc' = "resolve"
    /\ UNCHANGED <<env, benchmark, query_number, query_path, original_query,
                   spark_query, spark, stdout, stderr, exit_status, calls>>

\* if benchmark not in ["tpc-h", "tpc-ds"]: print(...); sys.exit(1)
ValidateBenchmark ==
    /\ pc = "validate"
    /\ IF benchmark \notin {TPC_H, TPC_DS}
       THEN /\ stdout' = Append(stdout,
                    Item("error", <<"Benchmark must be 'tpc-h' or 'tpc-ds', got ", benchmark>>))
            /\ exit_status' = 1
            /\ pc' = "exited"
       ELSE /\ pc' = "resolve"
            /\ UNCHANGED <<stdout, exit_status>>
    /\ UNCHANGED <<env, benchmark, query_number, query_path, original_query,
                   spark_query, spark, stderr, calls>>

\* query_path = get_query_path(benchmark, query_number); print(...)
ResolvePath ==
    /\ pc = "resolve"
    /\ calls' = Append(calls, Call("get_query_path", <<benchmark, query_number>>))
    /\ LET r == GetQueryPath(benchmark, query_number)
       IN  IF r.ok
           THEN /\ query_path' = r.path
                /\ stdout' = Append(stdout, Item("path", <<"Reading query from: ", r.path>>))
                /\ pc' = "read"
                /\ UNCHANGED <<stderr, exit_status>>
           ELSE \* ValueError is caught nowhere: traceback, status 1
                /\ stderr' = Append(stderr, Item("traceback", <<"ValueError">>))
                /\ exit_status' = 1
                /\ pc' = "exited"
                /\ UNCHANGED <<query_path, stdout>>
    /\ UNCHANGED <<env, benchmark, query_number, original_query, spark_query, spark>>

\* mutant: read_query opens the file without the os.path.exists check, so a
\* missing file gives open()'s own FileNotFoundError message
ReadQueryNoExistsCheck ==
    /\ pc = "read"
    /\ \/ /\ fs[query_path] = "missing"
          /\ calls' = calls \o <<Call("read", <<query_path>>), Call("open", <<query_path>>)>>
          /\ stdout' = Append(stdout,
                  Item("error", <<"[Errno 2] No such file or directory: ", query_path>>))
          /\ exit_status' = 1
          /\ pc' = "exited"
          /\ UNCHANGED <<original_query, stderr>>
       \/ /\ fs[query_path] = "unreadable"
          /\ calls' = calls \o <<Call("read", <<query_path>>), Call("open", <<query_path>>)>>
          /\ stderr' = Append(stderr, Item("traceback", <<"OSError">>))
          /\ exit_status' = 1
          /\ pc' = "exited"
          /\ UNCHANGED <<original_query, stdout>>
       \/ /\ IsText(fs[query_path])
          /\ calls' = calls \o <<Call("read", <<query_path>>), Call("open", <<query_path>>)>>
          /\ original_query' = fs[query_path]
          /\ stdout' = stdout \o <<Header("ORIGINAL QUERY:"), Item("original", <<fs[query_path]>>)>>
          /\ pc' = "translate"
          /\ UNCHANGED <<stderr, exit_status>>
    /\ UNCHANGED <<env, benchmark, query_number, query_path, spark_query, spark>>

\* original_query = read_query(query_path), and the prints that follow it
ReadQuery ==
    /\ pc = "read"
    /\ \/ \* os.path.exists is false: FileNotFoundError, caught by main
          /\ fs[query_path] = "missing"
          /\ calls' = calls \o <<Call("read", <<query_path>>), Call("exists", <<query_path>>)>>
          /\ stdout' = Append(stdout, Item("error", <<"Query file not found: ", query_path>>))
          /\ exit_status' = 1
          /\ pc' = "exited"
          /\ UNCHANGED <<original_query, stderr>>
       \/ \* the path exists but open() raises another OSError: caught nowhere
          /\ fs[query_path] = "unreadable"
          /\ calls' = calls \o <<Call("read", <<query_path>>), Call("exists", <<query_path>>),
                                 Call("open", <<query_path>>)>>
          /\ stderr' = Append(stderr, Item("traceback", <<"OSError">>))
          /\ exit_status' = 1
          /\ pc' = "exited"
          /\ UNCHANGED <<original_query, stdout>>
       \/ /\ IsText(fs[query_path])
          /\ calls' = calls \o <<Call("read", <<query_path>>), Call("exists", <<query_path>>),
                                 Call("open", <<query_path>>)>>
          /\ original_query' = fs[query_path]
          /\ stdout' = stdout \o <<Header("ORIGINAL QUERY:"), Item("original", <<fs[query_path]>>)>>
          /\ pc' = "translate"
          /\ UNCHANGED <<stderr, exit_status>>
    /\ UNCHANGED <<env, benchmark, query_number, query_path, spark_query, spark>>

\* mutant: the RuntimeError handler prints its message and forgets sys.exit(1)
TranslateNoExit ==
    /\ pc = "translate"
    /\ calls' = Append(calls, Call("translate", <<original_query, "duckdb", "spark">>))
    /\ LET r == TranslateToSpark(original_query)
       IN  IF r.ok
           THEN /\ spark_query' = r.text
                /\ stdout' = stdout \o <<Header("TRANSLATED TO SPARK SQL:"),
                                         Item("translated", <<r.text>>)>>
           ELSE /\ stdout' = stdout \o <<Header("TRANSLATED TO SPARK SQL:"),
                                         Item("error", <<"Failed to translate query: ", "e">>)>>
                /\ UNCHANGED spark_query
    /\ pc' = "session"
    /\ UNCHANGED <<env, benchmark, query_number, query_path, original_query, spark, stderr,
                   exit_status>>

\* mutant: the section header is printed after the translated query
TranslateHeaderLast ==
    /\ pc = "translate"
    /\ calls' = Append(calls, Call("translate", <<original_query, "duckdb", "spark">>))
    /\ LET r == TranslateToSpark(original_query)
       IN  IF r.ok
           THEN /\ spark_query' = r.text
                /\ stdout' = stdout \o <<Item("translated", <<r.text>>),
                                         Header("TRANSLATED TO SPARK SQL:")>>
                /\ pc' = "session"
                /\ UNCHANGED exit_status
           ELSE /\ stdout' = stdout \o <<Header("TRANSLATED TO SPARK SQL:"),
                                         Item("error", <<"Failed to translate query: ", "e">>)>>
                /\ exit_status' = 1
                /\ pc' = "exited"
                /\ UNCHANGED spark_query
    /\ UNCHANGED <<env, benchmark, query_number, query_path, original_query, spark, stderr>>

\* the header, then spark_query = translate_to_spark(original_query); print(spark_query)
Translate ==
    /\ pc = "translate"
    /\ calls' = Append(calls, Call("translate", <<original_query, "duckdb", "spark">>))
    /\ LET r == TranslateToSpark(original_query)
       IN  IF r.ok
           THEN /\ spark_query' = r.text
                /\ stdout' = stdout \o <<Header("TRANSLATED TO SPARK SQL:"),
                                         Item("translated", <<r.text>>)>>
                /\ pc' = "session"
                /\ UNCHANGED exit_status
           ELSE /\ stdout' = stdout \o <<Header("TRANSLATED TO SPARK SQL:"),
                                         Item("error", <<"Failed to translate query: ", "e">>)>>
                /\ exit_status' = 1
                /\ pc' = "exited"
                /\ UNCHANGED spark_query
    /\ UNCHANGED <<env, benchmark, query_number, query_path, original_query, spark, stderr>>

\* the header, spark = None, then spark = create_spark_session()
CreateSession ==
    /\ pc = "session"
    /\ calls' = Append(calls, Call("create_spark_session", <<>>))
    /\ stdout' = Append(stdout, Header("SPARK PHYSICAL PLAN:"))
    /\ \/ /\ spark' = "active"
          /\ pc' = "tables"
       \/ \* getOrCreate raises: spark stays None
          /\ spark' = None
          /\ pc' = "except"
    /\ UNCHANGED <<env, benchmark, query_number, query_path, original_query,
                   spark_query, stderr, exit_status>>

\* the tables create_tpc_h_tables declares, in order: <<name, first column>>
TpcHTables ==
    << <<"nation", "n_nationkey">>, <<"region", "r_regionkey">>, <<"part", "p_partkey">>,
       <<"supplier", "s_suppkey">>, <<"partsupp", "ps_partkey">>, <<"customer", "c_custkey">>,
       <<"orders", "o_orderkey">>, <<"lineitem", "l_orderkey">> >>

\* the tables create_tpc_ds_tables declares, in order: <<name, first column>>
TpcDsTables ==
    << <<"store_sales", "ss_sold_date_sk">>, <<"store_returns", "sr_returned_date_sk">>,
       <<"catalog_sales", "cs_sold_date_sk">>, <<"catalog_returns", "cr_returned_date_sk">>,
       <<"web_sales", "ws_sold_date_sk">>, <<"web_returns", "wr_returned_date_sk">>,
       <<"inventory", "inv_date_sk">>, <<"store", "s_store_sk">>,
       <<"customer", "c_customer_sk">>, <<"customer_address", "ca_address_sk">>,
       <<"customer_demographics", "cd_demo_sk">>, <<"date_dim", "d_date_sk">>,
       <<"household_demographics", "hd_demo_sk">>, <<"item", "i_item_sk">>,
       <<"promotion", "p_promo_sk">>, <<"time_dim", "t_time_sk">>,
       <<"warehouse", "w_warehouse_sk">>, <<"web_site", "web_site_sk">>,
       <<"web_page", "wp_web_page_sk">>, <<"catalog_page", "cp_catalog_page_sk">>,
       <<"call_center", "cc_call_center_sk">>, <<"income_band", "ib_income_band_sk">>,
       <<"reason", "r_reason_sk">>, <<"ship_mode", "sm_ship_mode_sk">> >>

\* the spark.sql("CREATE TABLE IF NOT EXISTS ...") calls of a schema set, in order
TableStatements(schema) ==
    [i \in DOMAIN schema |->
        Call("sql", <<"CREATE TABLE IF NOT EXISTS", schema[i][1], schema[i][2]>>)]

\* one of the two functions runs: its statements are issued in order, and
\* either all succeed or one of them raises and the rest is not issued
DeclareTables(fn, schema) ==
    \/ /\ calls' = calls \o <<Call(fn, <<>>)>> \o TableStatements(schema)
       /\ pc' = "plan"
    \/ \E k \in DOMAIN schema :
          /\ calls' = calls \o <<Call(fn, <<>>)>> \o SubSeq(TableStatements(schema), 1, k)
          /\ pc' = "except"

\* mutant: the two branches are swapped
CreateTablesSwapped ==
    /\ pc = "tables"
    /\ IF benchmark = TPC_H
       THEN DeclareTables("create_tpc_ds_tables", TpcDsTables)
       ELSE DeclareTables("create_tpc_h_tables", TpcHTables)
    /\ UNCHANGED <<env, benchmark, query_number, query_path, original_query,
                   spark_query, spark, stdout, stderr, exit_status>>

\* if benchmark == "tpc-h": create_tpc_h_tables(spark) else: create_tpc_ds_tables(spark)
CreateTables ==
    /\ pc = "tables"
    /\ IF benchmark = TPC_H
       THEN DeclareTables("create_tpc_h_tables", TpcHTables)
       ELSE DeclareTables("create_tpc_ds_tables", TpcDsTables)
    /\ UNCHANGED <<env, benchmark, query_number, query_path, original_query,
                   spark_query, spark, stdout, stderr, exit_status>>

\* plan = get_physical_plan(spark, spark_query); print(plan)
GetPhysicalPlan ==
    /\ pc = "plan"
    /\ calls' = Append(calls, Call("get_physical_plan", <<spark, spark_query>>))
    /\ \/ \E plan \in PlanTexts :
            /\ stdout' = Append(stdout, Item("plan", <<plan>>))
            /\ pc' = "finally"
       \/ \* spark.sql or explainString raises: RuntimeError
          /\ pc' = "except"
          /\ UNCHANGED stdout
    /\ UNCHANGED <<env, benchmark, query_number, query_path, original_query,
                   spark_query, spark, stderr, exit_status>>

\* mutant: the handler prints its message and forgets sys.exit(1)
HandleErrorNoExit ==
    /\ pc = "except"
    /\ stdout' = Append(stdout, Item("error", <<"Error getting physical plan: ", "e">>))
    /\ pc' = "finally"
    /\ UNCHANGED <<env, benchmark, query_number, query_path, original_query,
                   spark_query, spark, stderr, calls, exit_status>>

\* mutant: the handler prints its message and submits the query again
HandleErrorRetry ==
    /\ pc = "except"
    /\ stdout' = Append(stdout, Item("error", <<"Error getting physical plan: ", "e">>))
    /\ exit_status' = 1
    /\ pc' = IF Truthy(spark) /\ ~(\E i \in DOMAIN stdout : stdout[i].kind = "error")
             THEN "plan" ELSE "finally"
    /\ UNCHANGED <<env, benchmark, query_number, query_path, original_query,
                   spark_query, spark, stderr, calls>>

\* except Exception as e: print(...); sys.exit(1)
HandleError ==
    /\ pc = "except"
    /\ stdout' = Append(stdout, Item("error", <<"Error getting physical plan: ", "e">>))
    /\ exit_status' = 1
    /\ pc' = "finally"
    /\ UNCHANGED <<env, benchmark, query_number, query_path, original_query,
                   spark_query, spark, stderr, calls>>

\* mutant: spark.stop() at the end of the try block, not in a finally block
FinallyOnSuccessOnly ==
    /\ pc = "finally"
    /\ IF Truthy(spark) /\ exit_status = 0
       THEN /\ spark' = "stopped"
            /\ calls' = Append(calls, Call("stop", <<>>))
       ELSE UNCHANGED <<spark, calls>>
    /\ pc' = "exited"
    /\ UNCHANGED <<env, benchmark, query_number, query_path, original_query,
                   spark_query, stdout, stderr, exit_status>>

\* finally: if spark: spark.stop()
Finally ==
    /\ pc = "finally"
    /\ IF Truthy(spark)
       THEN /\ spark' = "stopped"
            /\ calls' = Append(calls, Call("stop", <<>>))
       ELSE UNCHANGED <<spark, calls>>
    /\ pc' = "exited"
    /\ UNCHANGED <<env, benchmark, query_number, query_path, original_query,
                   spark_query, stdout, stderr, exit_status>>

\* the tool is invoked again with the same arguments, the files unchanged
Restart ==
    /\ pc = "exited"
    /\ run < MaxRuns
    /\ prev' = [stdout |-> stdout, exit_status |-> exit_status]
    /\ run' = run + 1
    /\ pc' = "argc"
    /\ benchmark' = <<>>
    /\ query_number' = 0
    /\ query_path' = <<>>
    /\ original_query' = ""
    /\ spark_query' = ""
    /\ spark' = None
    /\ stdout' = <<>>
    /\ stderr' = <<>>
    /\ exit_status' = 0
    /\ calls' = <<>>
    /\ UNCHANGED <<argv, fs, transpile>>

Next ==
    \/ CheckArgc
    \/ ParseArgs
    \/ ValidateBenchmark
    \/ ResolvePath
    \/ ReadQuery
    \/ Translate
    \/ CreateSession
    \/ CreateTables
    \/ GetPhysicalPlan
    \/ HandleError
    \/ Finally
    \/ Restart

Spec == Init /\ [][Next]_vars

(***************************************************************************)
(* Vocabulary of the properties                                            *)
(***************************************************************************)
Exited == pc = "exited"
ArgcOk == Len(argv) = 3
\* the benchmark argument is one the tool recognizes
BenchmarkOk == ArgcOk /\ Lower(argv[2]) \in {TPC_H, TPC_DS}
NumberOk == ArgcOk /\ IntParse(argv[3]).ok
ValidArgs == BenchmarkOk /\ NumberOk
\* the path the arguments stand for
ArgPath == GetQueryPath(Lower(argv[2]), IntParse(argv[3]).val).path

Ops(cs) == [i \in DOMAIN cs |-> cs[i].op]
Called(op) == \E i \in DOMAIN calls : calls[i].op = op
NoFileAccess == ~Called("exists") /\ ~Called("open")
Printed(item) == \E i \in DOMAIN stdout : stdout[i] = item
PrintedKind(kind) == \E i \in DOMAIN stdout : stdout[i].kind = kind
LastPrinted == stdout[Len(stdout)]

ErrBenchmark(b) == Item("error", <<"Benchmark must be 'tpc-h' or 'tpc-ds', got ", b>>)
ErrNumber(n) == Item("error", <<"Query number must be an integer, got ", n>>)
ErrNotFound(p) == Item("error", <<"Query file not found: ", p>>)
ErrTranslate == Item("error", <<"Failed to translate query: ", "e">>)
ErrPlan == Item("error", <<"Error getting physical plan: ", "e">>)

\* everything a fully successful run prints
FullOutput(path, original, translated, plan) ==
    << Item("path", <<"Reading query from: ", path>>),
       Header("ORIGINAL QUERY:"), Item("original", <<original>>),
       Header("TRANSLATED TO SPARK SQL:"), Item("translated", <<translated>>),
       Header("SPARK PHYSICAL PLAN:"), Item("plan", <<plan>>) >>

(***************************************************************************)
(* C1                                                                      *)
(***************************************************************************)
\* C1 as stated: for a recognized benchmark and a positive query number whose
\* query file exists, a finished run
\* has printed a non-empty original query, a non-empty translated query and a
\* non-empty plan, and its exit status is 0.
C1_AsStated ==
    (Exited /\ ValidArgs /\ IntParse(argv[3]).val > 0 /\ fs[ArgPath] # "missing") =>
        /\ exit_status = 0
        /\ \E i \in DOMAIN stdout : stdout[i].kind = "original" /\ stdout[i].val # <<"">>
        /\ \E i \in DOMAIN stdout : stdout[i].kind = "translated" /\ stdout[i].val # <<"">>
        /\ \E i \in DOMAIN stdout : stdout[i].kind = "plan" /\ stdout[i].val # <<"">>

\* C1 amended: for valid arguments whose query file can be read and whose text
\* the translator accepts, a finished run either reports an engine failure and
\* ends with status 1, or has printed exactly the path, the file's text, the
\* translator's output and a plan text, each text under its header, and ends
\* with status 0.
C1_SuccessOutput ==
    (Exited /\ ValidArgs /\ IsText(fs[ArgPath])
            /\ transpile[<<fs[ArgPath], "duckdb", "spark">>].ok) =>
        \/ /\ exit_status = 1
           /\ LastPrinted = ErrPlan
           /\ ~PrintedKind("plan")
        \/ /\ exit_status = 0
           /\ \E plan \in PlanTexts :
                stdout = FullOutput(ArgPath, fs[ArgPath],
                                    transpile[<<fs[ArgPath], "duckdb", "spark">>].text, plan)

C1_Witness ==
    /\ Exited
    /\ exit_status = 0
    /\ ValidArgs
    /\ stdout = FullOutput(ArgPath, "sqlA", "sparkA", "planP")

(***************************************************************************)
(* C2                                                                      *)
(***************************************************************************)
\* C2 as stated: when the benchmark argument is not recognized, whatever the
\* second argument is, a finished run has a non-zero status, has printed an
\* error naming the benchmark value, and has made no file access.
C2_AsStated ==
    (Exited /\ ArgcOk /\ ~BenchmarkOk) =>
        /\ exit_status # 0
        /\ Printed(ErrBenchmark(argv[2])) \/ Printed(ErrBenchmark(Lower(argv[2])))
        /\ NoFileAccess

\* C2 amended: when the benchmark argument is not recognized, no file access
\* is ever made and a finished run has status 1; if the second argument
\* parses as an integer the only thing printed is the error naming the
\* lower-cased benchmark value, otherwise it is the query-number error, which
\* does not name the benchmark.
C2_UnknownBenchmark ==
    (ArgcOk /\ ~BenchmarkOk) =>
        /\ NoFileAccess
        /\ Exited =>
            /\ exit_status = 1
            /\ stdout = IF IntParse(argv[3]).ok
                        THEN <<ErrBenchmark(Lower(argv[2]))>>
                        ELSE <<ErrNumber(argv[3])>>

C2_Witness ==
    /\ Exited
    /\ ArgcOk
    /\ argv[2] = <<"t","p","c","-","x">>
    /\ stdout = <<ErrBenchmark(<<"t","p","c","-","x">>)>>
    /\ exit_status = 1

(***************************************************************************)
(* C3                                                                      *)
(***************************************************************************)
\* C3: when the query-number argument does not parse as an integer, the run
\* never gets past argument parsing, makes no file access at any point, and
\* ends with a non-zero status, whatever the benchmark argument is.
C3_NonIntegerNumber ==
    (ArgcOk /\ ~IntParse(argv[3]).ok) =>
        /\ pc \in {"argc", "parse", "exited"}
        /\ NoFileAccess
        /\ ~Called("get_query_path")
        /\ Exited => exit_status # 0

C3_Witness ==
    /\ Exited
    /\ ArgcOk
    /\ argv[3] = <<"a","b","c">>
    /\ exit_status = 1
    /\ stdout = <<ErrNumber(<<"a","b","c">>)>>

(***************************************************************************)
(* C4                                                                      *)
(***************************************************************************)
\* C4: for a valid benchmark and an integer query number whose constructed
\* file does not exist, a finished run has a non-zero status, the last thing
\* it printed is the "file not found" message holding the constructed path
\* (the path it announced), and neither the translator nor the engine session
\* was invoked.
C4_MissingFile ==
    (ValidArgs /\ fs[ArgPath] = "missing") =>
        /\ ~Called("translate")
        /\ ~Called("create_spark_session")
        /\ spark = None
        /\ Exited =>
            /\ exit_status # 0
            /\ stdout = << Item("path", <<"Reading query from: ", ArgPath>>),
                           ErrNotFound(ArgPath) >>
            /\ query_path = ArgPath

C4_Witness ==
    /\ Exited
    /\ ValidArgs
    /\ fs[ArgPath] = "missing"
    /\ LastPrinted = ErrNotFound(ArgPath)
    /\ Called("exists")

(***************************************************************************)
(* C5                                                                      *)
(***************************************************************************)
\* C5: a run that acquired an engine session has released it by the time it
\* ends, on every exit path; no finished run holds an active session, and a
\* session once acquired ends with a stop as the last call.
C5_SessionReleased ==
    Exited =>
        /\ spark # "active"
        /\ Called("create_spark_session") /\ spark # None =>
            /\ spark = "stopped"
            /\ calls[Len(calls)].op = "stop"

\* a failure path: the session was acquired, the engine failed, the session is stopped
C5_Witness ==
    /\ Exited
    /\ exit_status = 1
    /\ spark = "stopped"
    /\ LastPrinted = ErrPlan
    /\ Called("create_tpc_ds_tables")
    /\ ~Called("get_physical_plan")

(***************************************************************************)
(* C6                                                                      *)
(***************************************************************************)
\* the run printed a message: its last print is an error or the usage text,
\* or the interpreter wrote a traceback
MessagePrinted ==
    \/ Len(stdout) > 0 /\ LastPrinted.kind \in {"error", "usage"}
    \/ Len(stderr) > 0 /\ stderr[Len(stderr)].kind = "traceback"

\* a stage failed for a reason the environment fixes
InputFailure ==
    \/ ~ArgcOk
    \/ ~NumberOk
    \/ ~BenchmarkOk
    \/ ~IsText(fs[ArgPath])
    \/ ~transpile[<<fs[ArgPath], "duckdb", "spark">>].ok

AllStagesSucceeded ==
    /\ Ops(calls) \in
         { <<"validate", "get_query_path", "read", "exists", "open", "translate",
             "create_spark_session", t[1]>>
             \o Ops(TableStatements(t[2]))
             \o <<"get_physical_plan", "stop">> :
           t \in { <<"create_tpc_h_tables", TpcHTables>>,
                   <<"create_tpc_ds_tables", TpcDsTables>> } }
    /\ \E plan \in PlanTexts :
         stdout = FullOutput(query_path, original_query, spark_query, plan)
    /\ stderr = <<>>

Rank(it) ==
    CASE it.kind = "path" -> 1
      [] it.kind = "header" /\ it.val[1] = "ORIGINAL QUERY:" -> 2
      [] it.kind = "original" -> 3
      [] it.kind = "header" /\ it.val[1] = "TRANSLATED TO SPARK SQL:" -> 4
      [] it.kind = "translated" -> 5
      [] it.kind = "header" /\ it.val[1] = "SPARK PHYSICAL PLAN:" -> 6
      [] it.kind = "plan" -> 7
      [] OTHER -> 0

\* C7: at every point of every run, standard output holds the path, the
\* original query, the translated query and the plan in this order, none
\* before an earlier one, each text right after its own header; a message can
\* only be the last thing printed.
C7_OutputOrder ==
    \A i \in DOMAIN stdout :
        /\ Rank(stdout[i]) \in {0, i}
        /\ Rank(stdout[i]) = 0 => i = Len(stdout)

\* the translation was printed in its place and the engine then failed
C7_Witness ==
    /\ Exited
    /\ Len(stdout) = 7
    /\ \A i \in 1..6 : Rank(stdout[i]) = i
    /\ stdout[7] = ErrPlan

(***************************************************************************)
(* C8                                                                      *)
(***************************************************************************)
InPlanStage(it) == Rank(it) \in {6, 7} \/ (it.kind = "error" /\ it.val[1] = ErrPlan.val[1])
BeforePlanStage(it) == ~InPlanStage(it)
\* what a run printed up to and including the translation stage
UpToTranslation(out) == SelectSeq(out, BeforePlanStage)
ReachedPlanStage(out) == \E i \in DOMAIN out : Rank(out[i]) = 6
\* the status a run has at the end of the translation stage
StatusUpToTranslation(out, status) == IF ReachedPlanStage(out) THEN 0 ELSE status

\* C8: an invocation that follows another with the same arguments, the same
\* files and the same (pure) translator prints the same path, the same
\* original query and the same translated query, and has the same status up
\* to the translation stage.
C8_SameOutputTwice ==
    (Exited /\ run > 1) =>
        /\ UpToTranslation(stdout) = UpToTranslation(prev.stdout)
        /\ StatusUpToTranslation(stdout, exit_status)
             = StatusUpToTranslation(prev.stdout, prev.exit_status)

\* two runs that both translated, the engine failing in one and not in the other
C8_Witness ==
    /\ Exited
    /\ run > 1
    /\ PrintedKind("translated")
    /\ exit_status = 0
    /\ prev.exit_status = 1
    /\ Len(prev.stdout) = 7

(***************************************************************************)
(* C9                                                                      *)
(***************************************************************************)
\* C9 as stated: no run reaches path construction or a file lookup with a
\* query number that is zero or negative.
C9_AsStated ==
    /\ \A i \in DOMAIN calls : calls[i].op = "get_query_path" => calls[i].arg[2] > 0
    /\ Called("exists") => query_number > 0

\* C9 amended: the query number from which the path is constructed is the
\* integer int() parsed from the second argument, whatever its sign: zero and
\* negative numbers are not rejected, and the file lookup is made on the path
\* built from them.
C9_NumberIsParsedInteger ==
    /\ \A i \in DOMAIN calls :
         calls[i].op = "get_query_path" =>
            /\ IntParse(argv[3]).ok
            /\ calls[i].arg[2] = IntParse(argv[3]).val
    /\ \A i \in DOMAIN calls :
         calls[i].op = "exists" =>
            /\ IntParse(argv[3]).ok
            /\ calls[i].arg[1] = GetQueryPath(benchmark, IntParse(argv[3]).val).path

\* a file lookup made for query number -5
C9_Witness ==
    /\ Called("exists")
    /\ query_number < 0
    /\ query_path = <<ScriptDir, "queries-tpc-h", <<"-","5",".","s","q","l">>>>

(***************************************************************************)
(* C10                                                                     *)
(***************************************************************************)
StageOrder ==
    <<"validate", "read", "translate", "create_spark_session", "tables", "get_physical_plan">>
StageOf(op) ==
    IF op \in {"create_tpc_h_tables", "create_tpc_ds_tables"} THEN "tables" ELSE op
IsStage(op) == \E i \in DOMAIN StageOrder : StageOrder[i] = op
RECURSIVE Stages(_)
\* the stages a call history started, in order
Stages(cs) ==
    IF cs = <<>> THEN <<>>
    ELSE IF IsStage(StageOf(cs[1].op)) THEN <<StageOf(cs[1].op)>> \o Stages(Tail(cs))
    ELSE Stages(Tail(cs))

\* a stage of this run has failed
Failed ==
    \/ pc = "except"
    \/ PrintedKind("error")
    \/ PrintedKind("usage")
    \/ stderr # <<>>

C10_StagesInOrder ==
    /\ Stages(calls) = SubSeq(StageOrder, 1, Len(Stages(calls)))
    /\ Called("translate") => Called("open") /\ PrintedKind("original")
    /\ Called("create_spark_session") => PrintedKind("translated")
    /\ Called("get_physical_plan") => spark = "active" \/ pc = "exited"

\* C10: the stages of a run start at most once each, in the order validate,
\* read, translate, acquire session, declare tables, submit query; the
\* translator is called only after the file was read, a session acquired only
\* after the translation was printed; and once a stage has failed no further
\* stage starts in that run.
C10_LinearStages ==
    /\ []C10_StagesInOrder
    /\ [][(Failed /\ run' = run) => Stages(calls') = Stages(calls)]_vars

\* the table declaration failed after four stages, and the run ended there
C10_Witness ==
    /\ Exited
    /\ Stages(calls) = SubSeq(StageOrder, 1, 5)
    /\ LastPrinted = ErrPlan

(***************************************************************************)
(* C11                                                                     *)
(***************************************************************************)
IsCreateTable(c) == c.op = "sql"
\* the table declarations a call history holds, in order
Declarations(cs) == SelectSeq(cs, IsCreateTable)
\* the declarations of the schema set the benchmark argument selects
SelectedDeclarations ==
    IF Lower(argv[2]) = TPC_H THEN TableStatements(TpcHTables)
    ELSE TableStatements(TpcDsTables)
IsPrefix(a, b) == Len(a) <= Len(b) /\ a = SubSeq(b, 1, Len(a))

\* C11: the table declarations issued in a run are always the leading ones of
\* the selected benchmark's set (tpc-h: the TPC-H tables, tpc-ds: the TPC-DS
\* tables, never the other set, never both); the translated query is
\* submitted only when all of them have been issued, to the session that
\* issued them while it is active, at most once, and never after the stop.
C11_TablesBeforeQuery ==
    /\ Called("create_tpc_h_tables") \/ Called("create_tpc_ds_tables") \/ Called("sql") =>
         /\ BenchmarkOk
         /\ Called("create_tpc_h_tables") <=> Lower(argv[2]) = TPC_H
         /\ Called("create_tpc_ds_tables") <=> Lower(argv[2]) = TPC_DS
         /\ IsPrefix(Declarations(calls), SelectedDeclarations)
    /\ \A i \in DOMAIN calls :
         calls[i].op = "get_physical_plan" =>
            /\ Declarations(SubSeq(calls, 1, i - 1)) = SelectedDeclarations
            /\ Declarations(calls) = SelectedDeclarations
            /\ calls[i].arg = <<"active", transpile[<<fs[ArgPath], "duckdb", "spark">>].text>>
            /\ \A j \in DOMAIN calls : calls[j].op = "get_physical_plan" => j = i
            /\ \A j \in DOMAIN calls : calls[j].op = "stop" => j > i
            /\ \E j \in 1..(i - 1) :
                 /\ calls[j].op = "create_spark_session"
                 /\ \A k \in DOMAIN calls : calls[k].op = "create_spark_session" => k = j

\* the query was submitted after the 24 declarations of the TPC-DS set
C11_Witness ==
    /\ Exited
    /\ Called("get_physical_plan")
    /\ Called("create_tpc_ds_tables")
    /\ Len(Declarations(calls)) = 24
    /\ Declarations(calls)[9].arg = <<"CREATE TABLE IF NOT EXISTS", "customer", "c_customer_sk">>
    /\ spark = "stopped"

(***************************************************************************)
(* get_query_path on its own: two calls with arbitrary arguments           *)
(***************************************************************************)
\* benchmark values handed to get_query_path as they are (it does not lower-case)
PathBenchmarks == BenchmarkArgs \cup {<<>>}
PathNumbers == (0 - MaxPathNumber)..MaxPathNumber

PathInit ==
    /\ argv = <<Script>>
    /\ fs = [p \in Paths |-> "missing"]
    /\ transpile = [c \in TranspileCalls |-> [ok |-> FALSE, text |-> ""]]
    /\ pc = "path_first"
    /\ benchmark = <<>>
    /\ query_number = 0
    /\ query_path = <<>>
    /\ original_query = ""
    /\ spark_query = ""
    /\ spark = None
    /\ stdout = <<>>
    /\ stderr = <<>>
    /\ exit_status = 0
    /\ calls = <<>>
    /\ run = 1
    /\ prev = [stdout |-> <<>>, exit_status |-> 0]

\* one call get_query_path(b, n): a path is returned, or ValueError is raised
PathCall ==
    /\ pc \in {"path_first", "path_second"}
    /\ \E b \in PathBenchmarks, n \in PathNumbers :
         LET r == GetQueryPath(b, n)
         IN  /\ benchmark' = b
             /\ query_number' = n
             /\ calls' = Append(calls, Call("get_query_path", <<b, n, r>>))
             /\ IF r.ok
                THEN /\ query_path' = r.path
                     /\ UNCHANGED stderr
                ELSE /\ stderr' = Append(stderr, Item("traceback", <<"ValueError">>))
                     /\ UNCHANGED query_path
    /\ pc' = IF pc = "path_first" THEN "path_second" ELSE "path_done"
    /\ UNCHANGED <<env, original_query, spark_query, spark, stdout, exit_status>>

PathNext == PathCall

PathSpec == PathInit /\ [][PathNext]_vars

(***************************************************************************)
(* C12                                                                     *)
(***************************************************************************)
HasPrefix(s, p) == Len(p) <= Len(s) /\ SubSeq(s, 1, Len(p)) = p
HasSuffix(s, p) == Len(p) <= Len(s) /\ SubSeq(s, Len(s) - Len(p) + 1, Len(s)) = p
\* s without its first `front` and its last `back` characters
Strip(s, front, back) == SubSeq(s, front + 1, Len(s) - back)

\* d is the decimal numeral of n: a minus sign for a negative number, then
\* digits without a leading zero, and nothing else
IsDecimalOf(d, n) ==
    LET digits == IF Len(d) > 0 /\ d[1] = "-" THEN Tail(d) ELSE d
    IN  /\ Len(digits) > 0
        /\ \A i \in DOMAIN digits : IsDigit(digits[i])
        /\ Len(digits) > 1 => digits[1] # "0"
        /\ (Len(d) > 0 /\ d[1] = "-") <=> n < 0
        /\ IntParse(d).ok
        /\ IntParse(d).val = n

\* name is prefix, the numeral of n, ".sql"
IsQueryFile(name, prefix, n) ==
    /\ HasPrefix(name, prefix)
    /\ HasSuffix(name, <<".","s","q","l">>)
    /\ Len(name) > Len(prefix) + 4
    /\ IsDecimalOf(Strip(name, Len(prefix), 4), n)

\* C12: get_query_path(tpc-h, n) is <tool directory>/queries-tpc-h/<n>.sql and
\* get_query_path(tpc-ds, n) is <tool directory>/queries-tpc-ds/query<n>.sql,
\* with n written in decimal; two calls with different (benchmark, n) that
\* both return give different paths; any other benchmark value (a name in
\* upper case included) raises an error and returns no path.
C12_PathTemplate ==
    /\ \A i \in DOMAIN calls :
         calls[i].op = "get_query_path" /\ Len(calls[i].arg) = 3 =>
            LET b == calls[i].arg[1]
                n == calls[i].arg[2]
                r == calls[i].arg[3]
            IN  /\ b = <<"t","p","c","-","h">> =>
                     /\ r.ok
                     /\ Len(r.path) = 3
                     /\ r.path[1] = ScriptDir
                     /\ r.path[2] = "queries-tpc-h"
                     /\ IsQueryFile(r.path[3], <<>>, n)
                /\ b = <<"t","p","c","-","d","s">> =>
                     /\ r.ok
                     /\ Len(r.path) = 3
                     /\ r.path[1] = ScriptDir
                     /\ r.path[2] = "queries-tpc-ds"
                     /\ IsQueryFile(r.path[3], <<"q","u","e","r","y">>, n)
                /\ b \notin {<<"t","p","c","-","h">>, <<"t","p","c","-","d","s">>} => ~r.ok
    /\ \A i, j \in DOMAIN calls :
         (/\ Len(calls[i].arg) = 3
          /\ Len(calls[j].arg) = 3
          /\ calls[i].arg[3].ok
          /\ calls[j].arg[3].ok
          /\ (calls[i].arg[1] # calls[j].arg[1] \/ calls[i].arg[2] # calls[j].arg[2]))
         => calls[i].arg[3].path # calls[j].arg[3].path

\* tpc-ds 10 gave query10.sql, and "TPC-H" raised
C12_Witness ==
    /\ pc = "path_done"
    /\ calls[1].arg[1] = TPC_DS
    /\ calls[1].arg[2] = 10
    /\ calls[1].arg[3].path =
         <<ScriptDir, "queries-tpc-ds", <<"q","u","e","r","y","1","0",".","s","q","l">>>>
    /\ calls[2].arg[1] = <<"T","P","C","-","H">>
    /\ ~calls[2].arg[3].ok
    /\ Len(stderr) = 1

(***************************************************************************)
(* C13                                                                     *)
(***************************************************************************)
IsUpper(c) == IndexIn(c, UpperAlpha) > 0
\* a is name (a lower-case string) with some of its letters in upper case
CaseVariant(a, name) ==
    /\ Len(a) = Len(name)
    /\ \A i \in DOMAIN name :
         \/ a[i] = name[i]
         \/ IsUpper(a[i]) /\ IndexIn(a[i], UpperAlpha) = IndexIn(name[i], LowerAlpha)
IsErrBenchmark(it) == it.kind = "error" /\ it.val[1] = ErrBenchmark(<<>>).val[1]

\* what a run given a case variant of `name` does: the same as for name itself
RunsAs(name, dir, fn, schema) ==
    /\ ~(\E i \in DOMAIN stdout : IsErrBenchmark(stdout[i]))
    /\ pc \notin {"argc", "parse"} => benchmark = name
    /\ Called("get_query_path") =>
         /\ query_path = GetQueryPath(name, IntParse(argv[3]).val).path
         /\ query_path[2] = dir
    /\ Called("create_tpc_h_tables") \/ Called("create_tpc_ds_tables") =>
         /\ Called(fn)
         /\ IsPrefix(Declarations(calls), TableStatements(schema))
    /\ Exited => Called("get_query_path")

\* C13: the benchmark argument is lower-cased before it is checked and used.
\* A run given any letter-case variant of tpc-h or tpc-ds is not rejected for
\* its benchmark and uses the path and the tables of the lower-case name; and
\* when the benchmark is rejected, the message shows the argument in lower
\* case, not as typed.
C13_LowerCased ==
    (ArgcOk /\ IntParse(argv[3]).ok) =>
        /\ CaseVariant(argv[2], <<"t","p","c","-","h">>) =>
             RunsAs(<<"t","p","c","-","h">>, "queries-tpc-h", "create_tpc_h_tables", TpcHTables)
        /\ CaseVariant(argv[2], <<"t","p","c","-","d","s">>) =>
             RunsAs(<<"t","p","c","-","d","s">>, "queries-tpc-ds", "create_tpc_ds_tables",
                    TpcDsTables)
        /\ \A i \in DOMAIN stdout :
             IsErrBenchmark(stdout[i]) =>
                /\ CaseVariant(argv[2], stdout[i].val[2])
                /\ \A k \in DOMAIN stdout[i].val[2] : ~IsUpper(stdout[i].val[2][k])
        /\ (/\ Exited
            /\ ~CaseVariant(argv[2], <<"t","p","c","-","h">>)
            /\ ~CaseVariant(argv[2], <<"t","p","c","-","d","s">>))
           => \E i \in DOMAIN stdout : IsErrBenchmark(stdout[i])

\* "Tpc-Ds" ran to the end as tpc-ds
C13_Witness ==
    /\ Exited
    /\ ArgcOk
    /\ argv[2] = <<"T","p","c","-","D","s">>
    /\ exit_status = 0
    /\ query_path[2] = "queries-tpc-ds"
    /\ Called("create_tpc_ds_tables")
    /\ Len(Declarations(calls)) = Len(TpcDsTables)

\* "TPC-X" was rejected and the message shows tpc-x
C13_RejectionReached ==
    /\ Exited
    /\ ArgcOk
    /\ argv[2] = <<"T","P","C","-","X">>
    /\ stdout = <<ErrBenchmark(<<"t","p","c","-","x">>)>>

====
